---- MODULE Spec2Model ----
(***************************************************************************)
(* A model of iopath's asynchronous write manager                          *)
(* (src/iopath/common/non_blocking_io.py: NonBlockingIOManager,            *)
(* NonBlockingIO) and of its Azure block-blob writer                       *)
(* (src/iopath/common/azure_blob.py: AzureBlobWriter).                     *)
(*                                                                         *)
(* The manager part has three kinds of threads: caller threads, which run  *)
(* get_non_blocking_io, NonBlockingIO.write/close and _join; one           *)
(* dispatcher thread per created PathData, which runs _poll_jobs; and the  *)
(* workers of the shared ThreadPoolExecutor.  A step of the model is one   *)
(* access to the shared state (the registry dict, a Queue, the pool), so   *)
(* the interleavings of the model are those of the Python threads.         *)
(***************************************************************************)
EXTENDS Integers, Sequences, FiniteSets, TLC

\* ------------------------------------------------------------------ bounds
MaxQueues == 2      \* PathData objects (queue + dispatcher) ever created
MaxJobs == 2        \* closures ever enqueued
PoolSize == 2       \* worker threads of the shared ThreadPoolExecutor
MaxChunkSize == 2   \* largest chunk_size a writer is made with
MaxWriteLen == 3    \* longest argument of one write()
MaxBytes == 4       \* bytes written to one writer in all
MaxFlushes == 2     \* explicit flush() calls on one writer
MaxCloses == 2      \* close() calls on one writer
MaxChunks == 3      \* chunks one download yields
MaxChunkLen == 2    \* longest chunk a download yields
MaxReadLen == 3     \* largest size given to read()
IdWindow == 20      \* _new_block_id calls made on each side of a limit
MaxEnds == 2        \* times one reader is seen to meet the end of its chunks

Threads == {"t1", "t2"}          \* caller threads
Paths == {"a", "b"}              \* destination paths that are opened
NoPath == "None"                 \* _join's default argument, path=None
EmptyPath == ""                  \* the empty string, a str that is falsy
JoinArgs == Paths \cup {NoPath, EmptyPath}
QIds == 1..MaxQueues
JobIds == 1..MaxJobs
Sentinel == 0                    \* the None that _join puts in a queue

VARIABLES
    path_to_data,   \* the registry dict, in insertion order: <<[path, data]>>
    queue,          \* queue[q]: the items of PathData q's Queue
    thread,         \* thread[q]: PathData q's dispatcher, [st, cur, path]
    job,            \* job[j]: the closure j, [path, st, q]
    workq,          \* the pool's FIFO of submitted work items
    pool_shutdown,  \* the pool's _shutdown flag
    handles,        \* paths for which a NonBlockingIO has been returned
    pc,             \* pc[t]: where caller t is inside its current call
    arg,            \* arg[t]: the path argument of t's current call
    local_q,        \* local_q[t]: the PathData t has looked up or popped
    todo,           \* todo[t]: the rest of paths_to_close in _join's loop
    success,        \* success[t]: _join's local variable
    pre,            \* pre[t]: jobs enqueued on the joined paths at the call
    joined_all,     \* a join() with no path has returned
    \* --- AzureBlobWriter and the blob it writes
    w_size,         \* _chunk_size
    w_chunk,        \* _chunk: NoChunk, or the BytesIO [buf, pos]
    w_idx,          \* _chunk_idx
    w_blocks,       \* _blocks: the block ids, in the order of staging
    staged,         \* the backend's uncommitted blocks: block id -> bytes
    blob,           \* the content of the blob, as last committed
    commits,        \* commit_block_list calls made
    written,        \* every byte handed to write(), in order
    w_hist,         \* [last, flushes, closes]: the calls made so far
    \* --- AzureBlobReader and the download it reads
    r_st,           \* "none": no reader; "open"; "notfound": __init__ raised
    r_size,         \* _chunk_size
    r_chunks,       \* what stream.chunks() yields, in order
    r_iter,         \* _chunk_iter: chunks taken from the iterator so far
    r_chunk,        \* _chunk: NoBytes, or the chunk last taken
    r_pos,          \* _chunk_pos
    r_out,          \* every byte the reads have returned, in order
    r_hist,         \* [last, n, got]: the last call; ended: ends met so far
    \* --- _new_block_id as a function of _chunk_idx
    id_idx,         \* _chunk_idx
    id_out          \* the identifier last returned, <<>> before the first

mvars == <<path_to_data, queue, thread, job, workq, pool_shutdown, handles,
           pc, arg, local_q, todo, success, pre, joined_all>>

wvars == <<w_size, w_chunk, w_idx, w_blocks, staged, blob, commits, written,
           w_hist>>

\* AzureBlobReader, and _new_block_id called on its own
rvars == <<r_st, r_size, r_chunks, r_iter, r_chunk, r_pos, r_out, r_hist>>

ivars == <<id_idx, id_out>>

\* AzureBlobPathHandler: the client attribute, the last _get_client call,
\* and one copy: the backend's copy status, the properties last fetched,
\* the clock and the deadline in seconds, and how the call ended.
VARIABLES h_has, h_client, h_req, h_ret, h_called,
          c_pc, c_via, c_status, c_props, c_now, c_deadline, c_ret

hvars == <<h_has, h_client, h_req, h_ret, h_called,
           c_pc, c_via, c_status, c_props, c_now, c_deadline, c_ret>>

\* What the manager and the writer leave alone.
xvars == <<rvars, ivars, hvars>>

vars == <<mvars, wvars, xvars>>

\* ------------------------------------------------------- the registry dict
Has(p) == \E i \in 1..Len(path_to_data) : path_to_data[i].path = p

Get(p) ==
    LET i == CHOOSE k \in 1..Len(path_to_data) : path_to_data[k].path = p
    IN  path_to_data[i].data

Keys == [i \in 1..Len(path_to_data) |-> path_to_data[i].path]

Pop(p) == SelectSeq(path_to_data, LAMBDA e : e.path # p)

SetItem(p, q) ==
    IF Has(p)
    THEN [i \in 1..Len(path_to_data) |->
            IF path_to_data[i].path = p THEN [path |-> p, data |-> q]
            ELSE path_to_data[i]]
    ELSE Append(path_to_data, [path |-> p, data |-> q])

\* Python's truth value of an Optional[str]: None and "" are both falsy.
Truthy(p) == p # NoPath /\ p # EmptyPath

NumQueues == Cardinality({q \in QIds : thread[q].st # "unborn"})
NumJobs == Cardinality({j \in JobIds : job[j].st # "unmade"})
Running == {j \in JobIds : job[j].st \in {"running", "blocked"}}
Blocked == {j \in JobIds : job[j].st = "blocked"}
Executed(j) == job[j].st \in {"done", "raised"}
Dead(q) == thread[q].st \in {"exited", "crashed"}
Alive(q) == thread[q].st \in {"polling", "waiting"}

\* ------------------------------------------------------------------- Init
ManagerInit ==
    /\ path_to_data = <<>>
    /\ queue = [q \in QIds |-> <<>>]
    /\ thread = [q \in QIds |-> [st |-> "unborn", cur |-> 0, path |-> NoPath]]
    /\ job = [j \in JobIds |->
                [path |-> NoPath, st |-> "unmade", q |-> 0]]
    /\ workq = <<>>
    /\ pool_shutdown = FALSE
    /\ handles = {}
    /\ pc = [t \in Threads |-> "idle"]
    /\ arg = [t \in Threads |-> NoPath]
    /\ local_q = [t \in Threads |-> 0]
    /\ todo = [t \in Threads |-> <<>>]
    /\ success = [t \in Threads |-> TRUE]
    /\ pre = [t \in Threads |-> {}]
    /\ joined_all = FALSE

\* ------------------------------------------- get_non_blocking_io (opena)
\* Line 55: the membership test.  A new PathData is created only within
\* the bound MaxQueues.
OpenCheck(t, p) ==
    /\ pc[t] = "idle"
    /\ \/ Has(p)
       \/ NumQueues + Cardinality({u \in Threads : pc[u] = "open_new"})
            < MaxQueues
    /\ pc' = [pc EXCEPT ![t] = IF Has(p) THEN "open_io" ELSE "open_new"]
    /\ arg' = [arg EXCEPT ![t] = p]
    /\ UNCHANGED <<path_to_data, queue, thread, job, workq, pool_shutdown,
                   handles, local_q, todo, success, pre, joined_all,
                   wvars, xvars>>

\* Lines 56-59: a new Queue, a started dispatcher thread, and the dict
\* assignment.  The queue and the thread are reachable by no other thread
\* before the assignment, so the three statements are one step.
OpenNew(t) ==
    /\ pc[t] = "open_new"
    /\ LET q == NumQueues + 1 IN
        /\ thread' = [thread EXCEPT ![q] =
                        [st |-> "polling", cur |-> 0, path |-> arg[t]]]
        /\ path_to_data' = SetItem(arg[t], q)
    /\ pc' = [pc EXCEPT ![t] = "open_io"]
    /\ UNCHANGED <<queue, job, workq, pool_shutdown, handles, arg, local_q,
                   todo, success, pre, joined_all,
                   wvars, xvars>>

\* Lines 61-73 and NonBlockingIO.__init__ (159-175): the synchronous open
\* either returns the file, and the handle goes to the caller, or raises;
\* open("") always raises.
OpenIO(t) ==
    /\ pc[t] = "open_io"
    /\ \/ /\ arg[t] # EmptyPath
          /\ handles' = handles \cup {arg[t]}
       \/ /\ handles' = handles
    /\ pc' = [pc EXCEPT ![t] = "idle"]
    /\ arg' = [arg EXCEPT ![t] = NoPath]
    /\ UNCHANGED <<path_to_data, queue, thread, job, workq, pool_shutdown,
                   local_q, todo, success, pre, joined_all,
                   wvars, xvars>>

\* ------------------------------------------ NonBlockingIO.write / close
\* Lines 196, 202 and the notify_manager lambda, line 65: the lookup
\* self._path_to_data[path], a KeyError when the path is not registered.
NotifyLookup(t, p) ==
    /\ pc[t] = "idle"
    /\ p \in handles
    /\ NumJobs + Cardinality({u \in Threads : pc[u] = "put"}) < MaxJobs
    /\ IF Has(p)
       THEN /\ local_q' = [local_q EXCEPT ![t] = Get(p)]
            /\ pc' = [pc EXCEPT ![t] = "put"]
            /\ arg' = [arg EXCEPT ![t] = p]
       ELSE UNCHANGED <<local_q, pc, arg>>
    /\ UNCHANGED <<path_to_data, queue, thread, job, workq, pool_shutdown,
                   handles, todo, success, pre, joined_all,
                   wvars, xvars>>

\* A put that jumps the queue.
NotifyPutFront(t) ==
    /\ pc[t] = "put"
    /\ LET j == NumJobs + 1 IN
        /\ job' = [job EXCEPT ![j] =
                     [path |-> arg[t], st |-> "queued", q |-> local_q[t]]]
        /\ queue' = [queue EXCEPT ![local_q[t]] = <<j>> \o @]
    /\ pc' = [pc EXCEPT ![t] = "idle"]
    /\ local_q' = [local_q EXCEPT ![t] = 0]
    /\ arg' = [arg EXCEPT ![t] = NoPath]
    /\ UNCHANGED <<path_to_data, thread, workq, pool_shutdown, handles,
                   todo, success, pre, joined_all,
                   wvars, xvars>>

\* Line 65, .queue.put(io_callable): the closure joins the queue that was
\* looked up, and write/close returns.
NotifyPut(t) ==
    /\ pc[t] = "put"
    /\ LET j == NumJobs + 1 IN
        /\ job' = [job EXCEPT ![j] =
                     [path |-> arg[t], st |-> "queued", q |-> local_q[t]]]
        /\ queue' = [queue EXCEPT ![local_q[t]] = Append(@, j)]
    /\ pc' = [pc EXCEPT ![t] = "idle"]
    /\ local_q' = [local_q EXCEPT ![t] = 0]
    /\ arg' = [arg EXCEPT ![t] = NoPath]
    /\ UNCHANGED <<path_to_data, thread, workq, pool_shutdown, handles,
                   todo, success, pre, joined_all,
                   wvars, xvars>>

\* ------------------------------------------------------------------ _join
\* Lines 101-109: the ValueError for an unregistered path, else the list
\* of paths to close.
JoinStart(t, a) ==
    /\ pc[t] = "idle"
    /\ IF Truthy(a) /\ ~Has(a)
       THEN UNCHANGED <<pc, arg, todo, success, pre>>
       ELSE /\ pc' = [pc EXCEPT ![t] = "join_loop"]
            /\ arg' = [arg EXCEPT ![t] = a]
            /\ todo' = [todo EXCEPT ![t] = IF Truthy(a) THEN <<a>> ELSE Keys]
            /\ success' = [success EXCEPT ![t] = TRUE]
            /\ pre' = [pre EXCEPT ![t] =
                        {j \in JobIds : /\ job[j].st # "unmade"
                                        /\ Truthy(a) => job[j].path = a}]
    /\ UNCHANGED <<path_to_data, queue, thread, job, workq, pool_shutdown,
                   handles, local_q, joined_all,
                   wvars, xvars>>

\* Lines 110-113 and 115-120: pop the next path and put None in its queue;
\* a path that has meanwhile left the dict is a KeyError, which is logged.
\* The pop and the put are one step: a put of another thread between them
\* gives the queue it gives before the pop.
JoinPop(t) ==
    /\ pc[t] = "join_loop"
    /\ todo[t] # <<>>
    /\ LET p == Head(todo[t]) IN
        IF Has(p)
        THEN /\ path_to_data' = Pop(p)
             /\ queue' = [queue EXCEPT ![Get(p)] = Append(@, Sentinel)]
             /\ local_q' = [local_q EXCEPT ![t] = Get(p)]
             /\ pc' = [pc EXCEPT ![t] = "join_wait"]
             /\ UNCHANGED <<todo, success>>
        ELSE /\ success' = [success EXCEPT ![t] = FALSE]
             /\ todo' = [todo EXCEPT ![t] = Tail(@)]
             /\ UNCHANGED <<path_to_data, queue, local_q, pc>>
    /\ UNCHANGED <<thread, job, workq, pool_shutdown, handles, arg, pre,
                   joined_all,
                   wvars, xvars>>

\* Line 114, path_data.thread.join(): returns once the dispatcher is dead.
JoinThread(t) ==
    /\ pc[t] = "join_wait"
    /\ Dead(local_q[t])
    /\ todo' = [todo EXCEPT ![t] = Tail(@)]
    /\ local_q' = [local_q EXCEPT ![t] = 0]
    /\ pc' = [pc EXCEPT ![t] = "join_loop"]
    /\ UNCHANGED <<path_to_data, queue, thread, job, workq, pool_shutdown,
                   handles, arg, success, pre, joined_all,
                   wvars, xvars>>

\* Lines 121-123 for a path: return success.  The call's locals are reset
\* when it returns.
JoinReturn(t) ==
    /\ pc[t] = "join_loop"
    /\ todo[t] = <<>>
    /\ Truthy(arg[t])
    /\ pc' = [pc EXCEPT ![t] = "idle"]
    /\ pre' = [pre EXCEPT ![t] = {}]
    /\ arg' = [arg EXCEPT ![t] = NoPath]
    /\ success' = [success EXCEPT ![t] = TRUE]
    /\ UNCHANGED <<path_to_data, queue, thread, job, workq, pool_shutdown,
                   handles, local_q, todo, joined_all,
                   wvars, xvars>>

\* Line 122, self._pool.shutdown(): the flag is set, new submissions are
\* refused from now on.
JoinShutdown(t) ==
    /\ pc[t] = "join_loop"
    /\ todo[t] = <<>>
    /\ ~Truthy(arg[t])
    /\ pool_shutdown' = TRUE
    /\ pc' = [pc EXCEPT ![t] = "join_shutdown"]
    /\ UNCHANGED <<path_to_data, queue, thread, job, workq, handles, arg,
                   local_q, todo, success, pre, joined_all,
                   wvars, xvars>>

\* Lines 122-123: shutdown(wait=True) returns when the workers have run
\* what was submitted; then _join returns success.
JoinAllReturn(t) ==
    /\ pc[t] = "join_shutdown"
    /\ workq = <<>>
    /\ Running = {}
    /\ pc' = [pc EXCEPT ![t] = "idle"]
    /\ pre' = [pre EXCEPT ![t] = {}]
    /\ arg' = [arg EXCEPT ![t] = NoPath]
    /\ success' = [success EXCEPT ![t] = TRUE]
    /\ joined_all' = TRUE
    /\ UNCHANGED <<path_to_data, queue, thread, job, workq, pool_shutdown,
                   handles, local_q, todo,
                   wvars, xvars>>

\* -------------------------------------------------------------- _poll_jobs
\* Lines 86-89: queue.get(), the None test, and self._pool.submit(item),
\* which raises RuntimeError once the pool is shut down; the exception
\* ends the dispatcher thread.
PollJobs(q) ==
    /\ thread[q].st = "polling"
    /\ queue[q] # <<>>
    /\ LET item == Head(queue[q]) IN
        /\ queue' = [queue EXCEPT ![q] = Tail(@)]
        /\ IF item = Sentinel
           THEN /\ thread' = [thread EXCEPT ![q].st = "exited"]
                /\ UNCHANGED <<job, workq>>
           ELSE IF pool_shutdown
           THEN /\ thread' = [thread EXCEPT ![q].st = "crashed"]
                /\ job' = [job EXCEPT ![item].st = "dropped"]
                /\ UNCHANGED workq
           ELSE /\ thread' = [thread EXCEPT ![q].st = "waiting",
                                             ![q].cur = item]
                /\ job' = [job EXCEPT ![item].st = "submitted"]
                /\ workq' = Append(workq, item)
    /\ UNCHANGED <<path_to_data, pool_shutdown, handles, pc, arg, local_q,
                   todo, success, pre, joined_all,
                   wvars, xvars>>

\* Line 89, .result(): returns when the job is done; re-raises the job's
\* exception, which nothing catches, so the dispatcher thread ends.
WaitResult(q) ==
    /\ thread[q].st = "waiting"
    /\ Executed(thread[q].cur)
    /\ thread' = [thread EXCEPT
                    ![q].st = IF job[thread[q].cur].st = "done" THEN "polling"
                              ELSE "crashed",
                    ![q].cur = 0]
    /\ UNCHANGED <<path_to_data, queue, job, workq, pool_shutdown, handles,
                   pc, arg, local_q, todo, success, pre, joined_all,
                   wvars, xvars>>

\* A pool of one worker, whatever PoolSize says.
WorkerFreeSerial == Running = {}

\* ------------------------------------------------- the ThreadPoolExecutor
\* Line 37: one shared pool.  A worker is free when fewer than PoolSize
\* work items are being run.
WorkerFree == Cardinality(Running) < PoolSize

\* A free worker takes the oldest submitted work item and runs the closure,
\* self._file.write(b) or self._file.close(); the call may block for good.
StartJob ==
    /\ workq # <<>>
    /\ WorkerFree
    /\ \E s \in {"running", "blocked"} :
          job' = [job EXCEPT ![Head(workq)].st = s]
    /\ workq' = Tail(workq)
    /\ UNCHANGED <<path_to_data, queue, thread, pool_shutdown, handles, pc,
                   arg, local_q, todo, success, pre, joined_all,
                   wvars, xvars>>

\* The closure returns or raises; the future is then done.
FinishJob(j) ==
    /\ job[j].st = "running"
    /\ \E s \in {"done", "raised"} : job' = [job EXCEPT ![j].st = s]
    /\ UNCHANGED <<path_to_data, queue, thread, workq, pool_shutdown,
                   handles, pc, arg, local_q, todo, success, pre, joined_all,
                   wvars, xvars>>

\* ============================================================ the writer
\* ------------------------------------------------------------ byte strings
\* A written byte is known by its place in the stream of written bytes, so
\* a byte that is lost, repeated or moved shows.
NewBytes(n) == [i \in 1..n |-> Len(written) + i]

\* io.BytesIO: a buffer and a position.  _chunk is None before the first
\* write.
NoChunk == [open |-> FALSE, buf |-> <<>>, pos |-> 0]
EmptyBytesIO == [open |-> TRUE, buf |-> <<>>, pos |-> 0]

\* BytesIO.write(b): b overwrites the buffer from the position on, and
\* extends it.
BytesIOWrite(c, b) ==
    [c EXCEPT !.buf = SubSeq(c.buf, 1, c.pos) \o b
                        \o SubSeq(c.buf, c.pos + Len(b) + 1, Len(c.buf)),
              !.pos = c.pos + Len(b)]

\* --------------------------------------------------------------- block ids
IdWidth == 5                     \* "{0:05}"
AsciiZero == 48                  \* ord("0")
B64Pad == 64                     \* "=", after the 64 letters of the alphabet

RECURSIVE DecDigits(_)
DecDigits(n) ==
    IF n < 10 THEN <<n>> ELSE Append(DecDigits(n \div 10), n % 10)

\* "{0:05}".format(n).encode("utf-8"), for n >= 0: the decimal digits,
\* zero-padded to five, as ASCII codes.
Format05(n) ==
    LET d == DecDigits(n)
        padded == IF Len(d) >= IdWidth THEN d
                  ELSE [i \in 1..(IdWidth - Len(d)) |-> 0] \o d
    IN  [i \in 1..Len(padded) |-> AsciiZero + padded[i]]

\* base64.urlsafe_b64encode: three bytes to four letters (each letter is
\* its index in the alphabet), the last group padded with "=".
RECURSIVE B64Encode(_)
B64Encode(b) ==
    IF b = <<>> THEN <<>>
    ELSE IF Len(b) = 1 THEN
        <<b[1] \div 4, (b[1] % 4) * 16, B64Pad, B64Pad>>
    ELSE IF Len(b) = 2 THEN
        <<b[1] \div 4, (b[1] % 4) * 16 + b[2] \div 16, (b[2] % 16) * 4, B64Pad>>
    ELSE <<b[1] \div 4, (b[1] % 4) * 16 + b[2] \div 16,
           (b[2] % 16) * 4 + b[3] \div 64, b[3] % 64>>
         \o B64Encode(SubSeq(b, 4, Len(b)))

\* _new_block_id, lines 197-205, for the index already incremented.
NewBlockId(idx) == B64Encode(Format05(idx))

\* Line 199: "BlockBlobs and AppendBlobs have a maximum of 50_000 blocks".
MaxBlockCount == 50000

\* The first index that does not fit the width of the format.
RECURSIVE Pow10(_)
Pow10(n) == IF n = 0 THEN 1 ELSE 10 * Pow10(n - 1)

\* base64 decoding, the inverse of B64Encode.
RECURSIVE B64Decode(_)
B64Decode(e) ==
    IF Len(e) < 4 THEN <<>>
    ELSE LET b1 == e[1] * 4 + e[2] \div 16
             b2 == (e[2] % 16) * 16 + e[3] \div 4
             b3 == (e[3] % 4) * 64 + e[4]
         IN  IF e[3] = B64Pad THEN <<b1>>
             ELSE IF e[4] = B64Pad THEN <<b1, b2>>
             ELSE <<b1, b2, b3>> \o B64Decode(SubSeq(e, 5, Len(e)))

\* int(bytes): the number a string of ASCII digits writes.
ParseDec(b) ==
    LET val[k \in 0..Len(b)] ==
            IF k = 0 THEN 0 ELSE 10 * val[k - 1] + (b[k] - AsciiZero)
    IN  val[Len(b)]

\* The index a block id stands for.
DecodeId(id) == LET bytes == B64Decode(id) IN ParseDec(bytes)

\* ------------------------------------------------------------- the backend
\* stage_block(block_id, stream, length): the block is the `length` bytes
\* read from the stream, which flush() has rewound to 0.
StageBlock(st, id, c, length) ==
    [x \in (DOMAIN st) \cup {id} |->
        IF x = id THEN SubSeq(c.buf, 1, length) ELSE st[x]]

\* Where stage_block leaves the stream: a client that reads the block from
\* the stream leaves it after the block ("consumed"); one that copies the
\* buffer, or seeks back, leaves it at 0 ("rewound").  The source does not
\* fix which, so both are outcomes.
StreamAfter == {"consumed", "rewound"}

\* commit_block_list(ids): the blob is the staged blocks, in list order.
RECURSIVE Content(_, _)
Content(st, ids) ==
    IF ids = <<>> THEN <<>> ELSE st[Head(ids)] \o Content(st, Tail(ids))

\* -------------------------------------------------------- AzureBlobWriter
\* The writer's fields and the blocks staged so far, as one value.
Writer ==
    [chunk |-> w_chunk, idx |-> w_idx, blocks |-> w_blocks, staged |-> staged]

\* A flush that takes the id of the index but does not keep the increment.
FlushSameIndex(w, after) ==
    IF ~w.chunk.open \/ w.chunk.pos = 0 THEN w
    ELSE LET id == NewBlockId(w.idx + 1)
             length == w.chunk.pos
         IN  [chunk |-> [w.chunk EXCEPT
                           !.pos = IF after = "consumed" THEN length ELSE 0],
              idx |-> w.idx,
              blocks |-> Append(w.blocks, id),
              staged |-> StageBlock(w.staged, id, w.chunk, length)]

\* flush(), lines 249-269.
Flush(w, after) ==
    IF ~w.chunk.open \/ w.chunk.pos = 0 THEN w
    ELSE LET idx == w.idx + 1
             id == NewBlockId(idx)
             length == w.chunk.pos
         IN  [chunk |-> [w.chunk EXCEPT
                           !.pos = IF after = "consumed" THEN length ELSE 0],
              idx |-> idx,
              blocks |-> Append(w.blocks, id),
              staged |-> StageBlock(w.staged, id, w.chunk, length)]

\* A rollover that forgets the flush: the full chunk is dropped.
NextChunkNoFlush(w, after) == [w EXCEPT !.chunk = EmptyBytesIO]

\* _next_chunk(), lines 207-209.
NextChunk(w, after) == [Flush(w, after) EXCEPT !.chunk = EmptyBytesIO]

\* _append_to_chunk(b), lines 211-215.
AppendToChunk(w, b, after) ==
    LET w1 == IF ~w.chunk.open \/ w.chunk.pos >= w_size
              THEN NextChunk(w, after) ELSE w
    IN  [w1 EXCEPT !.chunk = BytesIOWrite(w1.chunk, b)]

WriterMade(size) ==
    /\ w_size = size
    /\ w_chunk = NoChunk
    /\ w_idx = -1
    /\ w_blocks = <<>>
    /\ staged = <<>>
    /\ blob = <<>>
    /\ commits = 0
    /\ written = <<>>
    /\ w_hist = [last |-> "new", flushes |-> 0, closes |-> 0]

Install(w) ==
    /\ w_chunk' = w.chunk
    /\ w_idx' = w.idx
    /\ w_blocks' = w.blocks
    /\ staged' = w.staged

\* write(b), lines 243-244.
Write(n, after) ==
    /\ Len(written) + n <= MaxBytes
    /\ Install(AppendToChunk(Writer, NewBytes(n), after))
    /\ written' = written \o NewBytes(n)
    /\ w_hist' = [w_hist EXCEPT !.last = "write"]
    /\ UNCHANGED <<w_size, blob, commits, mvars, xvars>>

\* An explicit flush() that commits what it has staged.
FlushCallCommits(after) ==
    /\ w_hist.flushes < MaxFlushes
    /\ LET w == Flush(Writer, after) IN
        /\ Install(w)
        /\ blob' = Content(w.staged, w.blocks)
    /\ commits' = commits + 1
    /\ w_hist' = [w_hist EXCEPT !.last = "flush", !.flushes = @ + 1]
    /\ UNCHANGED <<w_size, written, mvars, xvars>>

\* An explicit flush().
FlushCall(after) ==
    /\ w_hist.flushes < MaxFlushes
    /\ Install(Flush(Writer, after))
    /\ w_hist' = [w_hist EXCEPT !.last = "flush", !.flushes = @ + 1]
    /\ UNCHANGED <<w_size, blob, commits, written, mvars, xvars>>

\* close(), lines 271-280: the last flush, then the commit if any block
\* was staged.
Close(after) ==
    /\ w_hist.closes < MaxCloses
    /\ LET w == Flush(Writer, after) IN
        /\ Install(w)
        /\ IF w.blocks # <<>>
           THEN /\ blob' = Content(w.staged, w.blocks)
                /\ commits' = commits + 1
           ELSE UNCHANGED <<blob, commits>>
    /\ w_hist' = [w_hist EXCEPT !.last = "close", !.closes = @ + 1]
    /\ UNCHANGED <<w_size, written, mvars, xvars>>

\* ============================================================ the reader
\* _chunk is None before the first chunk is taken.
NoBytes == [open |-> FALSE, data |-> <<>>]

\* The bytes 1..n cut into chunks of the given lengths.
RECURSIVE CutFrom(_, _)
CutFrom(first, lens) ==
    IF lens = <<>> THEN <<>>
    ELSE <<[i \in 1..Head(lens) |-> first + i - 1]>>
         \o CutFrom(first + Head(lens), Tail(lens))

\* The chunk sequences a download can yield: any number of chunks up to
\* MaxChunks, each of any length up to MaxChunkLen, a length of 0 included.
ChunkLens == UNION {[1..k -> 0..MaxChunkLen] : k \in 0..MaxChunks}

\* A blob downloaded in chunks of a fixed size c, the last one shorter.
RECURSIVE FixedCut(_, _)
FixedCut(content, c) ==
    IF content = <<>> THEN <<>>
    ELSE IF Len(content) <= c THEN <<content>>
    ELSE <<SubSeq(content, 1, c)>>
         \o FixedCut(SubSeq(content, c + 1, Len(content)), c)

RECURSIVE Concat(_)
Concat(chunks) ==
    IF chunks = <<>> THEN <<>> ELSE Head(chunks) \o Concat(Tail(chunks))

\* No AzureBlobReader has been made.
ReaderIdle ==
    /\ r_st = "none"
    /\ r_size = 1
    /\ r_chunks = <<>>
    /\ r_iter = 0
    /\ r_chunk = NoBytes
    /\ r_pos = 0
    /\ r_out = <<>>
    /\ r_hist = [last |-> "none", n |-> 0, got |-> 0, ended |-> 0]

\* __init__, lines 79-92, on a download that yields `chunks`.
ReaderMade(size, chunks) ==
    /\ r_st = "open"
    /\ r_size = size
    /\ r_chunks = chunks
    /\ r_iter = 0
    /\ r_chunk = NoBytes
    /\ r_pos = 0
    /\ r_out = <<>>
    /\ r_hist = [last |-> "new", n |-> 0, got |-> 0, ended |-> 0]

\* The reader's fields, as one value.
Reader == [chunk |-> r_chunk, pos |-> r_pos, iter |-> r_iter]

\* A _next_chunk() that takes the next chunk and keeps the old cursor.
ReaderNextChunkKeepPos(r) ==
    [chunk |-> [open |-> TRUE, data |-> r_chunks[r.iter + 1]],
     pos |-> r.pos,
     iter |-> r.iter + 1]

\* _next_chunk(), lines 94-105, when the iterator has a next chunk.
ReaderNextChunk(r) ==
    [chunk |-> [open |-> TRUE, data |-> r_chunks[r.iter + 1]],
     pos |-> 0,
     iter |-> r.iter + 1]

\* next(self._chunk_iter) raises StopIteration: the iterator is at its end.
IterAtEnd(r) == r.iter >= Len(r_chunks)

\* A handler of StopIteration that starts the download again.
OnStopIterationRewind(r) == [r EXCEPT !.iter = 0]

\* Lines 126-127: StopIteration is caught after next() raised, before any
\* field was assigned.
OnStopIteration(r) == r

\* A _get_chunk_data(size) without the test of size == 0.
GetChunkDataNoZeroTest(r, size) ==
    LET need == ~r.chunk.open \/ r.pos >= Len(r.chunk.data) IN
    IF need /\ IterAtEnd(r)
    THEN [r |-> OnStopIteration(r), data |-> <<>>, stop |-> TRUE]
    ELSE LET r1 == IF need THEN ReaderNextChunk(r) ELSE r
             last == IF r1.pos + size < Len(r1.chunk.data)
                     THEN r1.pos + size ELSE Len(r1.chunk.data)
             data == SubSeq(r1.chunk.data, r1.pos + 1, last)
         IN  [r |-> [r1 EXCEPT !.pos = @ + Len(data)],
              data |-> data, stop |-> FALSE]

\* _get_chunk_data(size), lines 107-127: the reader after the call, the
\* bytes returned, and whether StopIteration was caught.
GetChunkData(r, size) ==
    IF size = 0 THEN [r |-> r, data |-> <<>>, stop |-> FALSE]
    ELSE LET need == ~r.chunk.open \/ r.pos >= Len(r.chunk.data) IN
         IF need /\ IterAtEnd(r)
         THEN [r |-> OnStopIteration(r), data |-> <<>>, stop |-> TRUE]
         ELSE LET r1 == IF need THEN ReaderNextChunk(r) ELSE r
                  last == IF r1.pos + size < Len(r1.chunk.data)
                          THEN r1.pos + size ELSE Len(r1.chunk.data)
                  data == SubSeq(r1.chunk.data, r1.pos + 1, last)
              IN  [r |-> [r1 EXCEPT !.pos = @ + Len(data)],
                   data |-> data, stop |-> FALSE]

\* readinto(stream), lines 152-158: the loop, from the reader r with acc
\* already written to the stream.
RECURSIVE ReadIntoLoop(_, _)
ReadIntoLoop(r, acc) ==
    LET g == GetChunkData(r, r_size) IN
    IF Len(g.data) > 0 THEN ReadIntoLoop(g.r, acc \o g.data)
    ELSE [r |-> g.r, data |-> acc, stop |-> g.stop]

\* The call `name`, asked for n bytes, has returned g.
Returned(name, n, g) ==
    /\ r_chunk' = g.r.chunk
    /\ r_pos' = g.r.pos
    /\ r_iter' = g.r.iter
    /\ r_out' = r_out \o g.data
    /\ r_hist' = [last |-> name, n |-> n, got |-> Len(g.data),
                  ended |-> IF g.stop /\ r_hist.ended < MaxEnds
                            THEN r_hist.ended + 1 ELSE r_hist.ended]
    /\ UNCHANGED <<r_st, r_size, r_chunks, mvars, wvars, ivars, hvars>>

\* read(size) with size >= 0, lines 141-144.
Read(n) ==
    /\ r_st = "open"
    /\ Returned("read", n, GetChunkData(Reader, n))

\* read() and read(-1), which is readall(), lines 146-149.
ReadAll ==
    /\ r_st = "open"
    /\ Returned("readall", -1, ReadIntoLoop(Reader, <<>>))

\* readinto(stream) called by the user, lines 152-158.
ReadInto ==
    /\ r_st = "open"
    /\ Returned("readinto", r_size, ReadIntoLoop(Reader, <<>>))

\* The blob exists once a commit_block_list has been made for it.
BlobExists == commits > 0

\* _open(path, "rb", buffering), lines 556-569, after the writer: the
\* constructor's client.download_blob() raises when there is no blob.
ReaderOpen(size, c) ==
    /\ r_st = "none"
    /\ IF BlobExists
       THEN /\ r_st' = "open"
            /\ r_chunks' = FixedCut(blob, c)
            /\ r_hist' = [r_hist EXCEPT !.last = "new"]
       ELSE /\ r_st' = "notfound"
            /\ UNCHANGED <<r_chunks, r_hist>>
    /\ r_size' = size
    /\ UNCHANGED <<r_iter, r_chunk, r_pos, r_out, mvars, wvars, ivars,
                   hvars>>

\* ============================================== the path handler's client
\* The storage accounts of the URIs.
Accounts == {"acct1", "acct2"}

\* The value None of the client attribute; a client is named by the
\* account its BlobServiceClient was made for.
NoClient == "None"

NoAccount == "none"

\* The copy statuses a blob's properties can report.
CopyStatuses == {"pending", "success", "failed", "aborted"}

\* _wait_for_copy's defaults, lines 657-658, in seconds.
TimeoutSecs == 1800

PollingSecs == 30

\* The most whole seconds a sleep overruns and a properties request takes.
MaxLatency == 1

\* AzureBlobPathHandler.__init__, lines 297-314: line 314 assigns None to
\* the client attribute.  No copy has been started.
HandlerMade ==
    /\ h_has = TRUE
    /\ h_client = NoClient
    /\ h_req = NoAccount
    /\ h_ret = NoClient
    /\ h_called = FALSE
    /\ c_pc = "idle"
    /\ c_via = "none"
    /\ c_status = "none"
    /\ c_props = "none"
    /\ c_now = 0
    /\ c_deadline = 0
    /\ c_ret = FALSE

\* _get_client(account), lines 354-361: the attribute after the call; a
\* client is made only if the instance has no attribute named client.
ClientAfter(account) == IF ~h_has THEN account ELSE h_client

\* _get_client(account) called on its own.
GetClient(account) ==
    /\ c_pc = "idle"
    /\ h_has' = TRUE
    /\ h_client' = ClientAfter(account)
    /\ h_req' = account
    /\ h_ret' = ClientAfter(account)
    /\ h_called' = TRUE
    /\ UNCHANGED <<c_pc, c_via, c_status, c_props, c_now, c_deadline, c_ret,
                   mvars, wvars, rvars, ivars>>

\* _wait_for_copy, lines 660-661: the first get_blob_properties, which may
\* raise AzureError, and the deadline.
WaitBegin(via, status, raises) ==
    /\ c_via' = via
    /\ c_status' = status
    /\ c_now' = 0
    /\ IF raises
       THEN /\ c_pc' = IF via = "copy" THEN "returned" ELSE "raised"
            /\ c_ret' = FALSE
            /\ UNCHANGED <<c_props, c_deadline>>
       ELSE /\ c_pc' = "waiting"
            /\ c_props' = status
            /\ c_deadline' = 0 + TimeoutSecs
            /\ UNCHANGED c_ret

\* _copy(src, dst), lines 619-651, up to the wait loop: line 641 calls
\* get_blob_client on what _get_client returned, which raises
\* AttributeError on None; start_copy_from_url may raise AzureError, which
\* line 648 turns into False.
CopyCall(account, status, starts, raises) ==
    /\ c_pc = "idle"
    /\ h_has' = TRUE
    /\ h_client' = ClientAfter(account)
    /\ h_req' = account
    /\ h_ret' = ClientAfter(account)
    /\ h_called' = TRUE
    /\ IF ClientAfter(account) = NoClient
       THEN /\ c_pc' = "raised"
            /\ c_via' = "copy"
            /\ UNCHANGED <<c_status, c_props, c_now, c_deadline, c_ret>>
       ELSE IF ~starts
       THEN /\ c_pc' = "returned"
            /\ c_via' = "copy"
            /\ c_ret' = FALSE
            /\ UNCHANGED <<c_status, c_props, c_now, c_deadline>>
       ELSE WaitBegin("copy", status, raises)
    /\ UNCHANGED <<mvars, wvars, rvars, ivars>>

\* _wait_for_copy(blob) called with a blob whose copy has the given status.
WaitForCopyCall(status, raises) ==
    /\ c_pc = "idle"
    /\ WaitBegin("direct", status, raises)
    /\ UNCHANGED <<h_has, h_client, h_req, h_ret, h_called,
                   mvars, wvars, rvars, ivars>>

\* Lines 663-666: the loop's test.
StillWaiting == c_props = "pending" /\ c_now < c_deadline

\* Lines 667-668: sleep, then get_blob_properties again, which may raise
\* AzureError.
WaitPoll(latency, raises) ==
    /\ c_pc = "waiting"
    /\ StillWaiting
    /\ c_now' = c_now + PollingSecs + latency
    /\ IF raises
       THEN /\ c_pc' = IF c_via = "copy" THEN "returned" ELSE "raised"
            /\ c_ret' = FALSE
            /\ UNCHANGED c_props
       ELSE /\ c_props' = c_status
            /\ UNCHANGED <<c_pc, c_ret>>
    /\ UNCHANGED <<h_has, h_client, h_req, h_ret, h_called,
                   c_via, c_status, c_deadline,
                   mvars, wvars, rvars, ivars>>

\* Line 670: return props.copy.status != "pending".
WaitForCopyResult == c_props # "pending"

WaitReturn ==
    /\ c_pc = "waiting"
    /\ ~StillWaiting
    /\ c_pc' = "returned"
    /\ c_ret' = WaitForCopyResult
    /\ UNCHANGED <<h_has, h_client, h_req, h_ret, h_called,
                   c_via, c_status, c_props, c_now, c_deadline,
                   mvars, wvars, rvars, ivars>>

\* The service ends a pending copy.
BackendCopyEnds(status) ==
    /\ c_pc = "waiting"
    /\ c_status = "pending"
    /\ status # "pending"
    /\ c_status' = status
    /\ UNCHANGED <<h_has, h_client, h_req, h_ret, h_called,
                   c_pc, c_via, c_props, c_now, c_deadline, c_ret,
                   mvars, wvars, rvars, ivars>>

\* ------------------------------------------------------------------- Next
\* _new_block_id has not been called.
IdIdle == id_idx = -1 /\ id_out = <<>>

Init ==
    /\ ManagerInit /\ WriterMade(MaxChunkSize) /\ ReaderIdle /\ IdIdle
    /\ HandlerMade

Caller(t) ==
    \/ \E p \in Paths : OpenCheck(t, p)
    \/ OpenNew(t)
    \/ OpenIO(t)
    \/ \E p \in Paths : NotifyLookup(t, p)
    \/ NotifyPut(t)
    \/ \E a \in JoinArgs : JoinStart(t, a)
    \/ JoinPop(t)
    \/ JoinThread(t)
    \/ JoinReturn(t)
    \/ JoinShutdown(t)
    \/ JoinAllReturn(t)

Background ==
    \/ \E q \in QIds : PollJobs(q)
    \/ \E q \in QIds : WaitResult(q)
    \/ StartJob
    \/ \E j \in JobIds : FinishJob(j)

Next ==
    \/ \E t \in Threads : Caller(t)
    \/ Background

Spec == Init /\ [][Next]_vars

\* The manager used from one caller thread: the dispatchers and the pool's
\* workers still run concurrently with it.
MainThread == "t1"

NextSeq ==
    \/ Caller(MainThread)
    \/ Background

SeqSpec == Init /\ [][NextSeq]_vars

\* One caller that also calls get_non_blocking_io with the empty string.
NextAnyPath ==
    \/ NextSeq
    \/ OpenCheck(MainThread, EmptyPath)

AnyPathSpec == Init /\ [][NextAnyPath]_vars

\* Every thread that can run is scheduled in the end: the dispatchers and
\* the workers are OS threads.  Callers are free to stop calling.
Fairness ==
    /\ \A q \in QIds : WF_vars(PollJobs(q)) /\ WF_vars(WaitResult(q))
    /\ WF_vars(StartJob)
    /\ \A j \in JobIds : WF_vars(FinishJob(j))

FairSpec == Init /\ [][Next]_vars /\ Fairness

FairSeqSpec == Init /\ [][NextSeq]_vars /\ Fairness

\* One AzureBlobWriter, made with any chunk size, and the calls on it.
WriterInit ==
    /\ ManagerInit /\ ReaderIdle /\ IdIdle /\ HandlerMade
    /\ \E size \in 1..MaxChunkSize : WriterMade(size)

WriterNext ==
    \/ \E n \in 0..MaxWriteLen, after \in StreamAfter : Write(n, after)
    \/ \E after \in StreamAfter : FlushCall(after)
    \/ \E after \in StreamAfter : Close(after)

WriterSpec == WriterInit /\ [][WriterNext]_vars

\* _new_block_id called again and again, from a writer that is new, from
\* one that nears the maximum block count, and from one that nears the end
\* of the five-digit indices.
StartIndices ==
    {-1, MaxBlockCount - IdWindow - 1, Pow10(IdWidth) - IdWindow - 1}

NewBlockIdCall ==
    /\ \E s \in StartIndices : s <= id_idx /\ id_idx < s + 2 * IdWindow
    /\ id_idx' = id_idx + 1
    /\ id_out' = NewBlockId(id_idx + 1)
    /\ UNCHANGED <<mvars, wvars, rvars, hvars>>

BlockIdInit ==
    /\ ManagerInit /\ WriterMade(MaxChunkSize) /\ ReaderIdle /\ HandlerMade
    /\ id_idx \in StartIndices
    /\ id_out = <<>>

BlockIdSpec == BlockIdInit /\ [][NewBlockIdCall]_vars

\* One AzureBlobReader on a download that yields any chunk sequence, and
\* the reads made on it.
ReaderInit ==
    /\ ManagerInit /\ WriterMade(MaxChunkSize) /\ IdIdle /\ HandlerMade
    /\ \E size \in 1..MaxChunkSize, lens \in ChunkLens :
          ReaderMade(size, CutFrom(1, lens))

ReaderNext ==
    \/ \E n \in 0..MaxReadLen : Read(n)
    \/ ReadAll
    \/ ReadInto

ReaderSpec == ReaderInit /\ [][ReaderNext]_vars

\* A writer, then a reader opened on the blob the writer has left.
RoundTripNext ==
    \/ r_st = "none" /\ WriterNext
    \/ \E size \in 1..MaxChunkSize, c \in 1..MaxChunkLen :
          w_hist.last = "close" /\ ReaderOpen(size, c)
    \/ ReaderNext

RoundTripSpec == WriterInit /\ [][RoundTripNext]_vars

\* One handler: requests for a client, and one copy.
HandlerNext ==
    \/ \E a \in Accounts : GetClient(a)
    \/ \E a \in Accounts, st \in CopyStatuses, starts, raises \in BOOLEAN :
          CopyCall(a, st, starts, raises)
    \/ \E st \in CopyStatuses, raises \in BOOLEAN : WaitForCopyCall(st, raises)
    \/ \E l \in 0..MaxLatency, raises \in BOOLEAN : WaitPoll(l, raises)
    \/ WaitReturn
    \/ \E st \in CopyStatuses : BackendCopyEnds(st)

HandlerSpec == Init /\ [][HandlerNext]_vars

\* ======================================================= claims: the manager
\* A job has been handed to a worker.
Started(j) == job[j].st \in {"running", "blocked", "done", "raised"}

\* C1: jobs of one path run in the order they were enqueued (job ids are
\* given in the order of the queue.put calls), one at a time: when a job
\* has started, every job enqueued earlier on its path has finished.
C1_PerPathOrder ==
    \A j, k \in JobIds :
        (j < k /\ job[j].path = job[k].path /\ Started(k)) => Executed(j)

\* The step in which caller t's join(path) returns.
JoinPathReturns(t) ==
    pc[t] = "join_loop" /\ pc'[t] = "idle" /\ Truthy(arg[t])

\* The step in which caller t's join, of a path or of all paths, returns.
JoinReturns(t) == pc[t] \in {"join_loop", "join_shutdown"} /\ pc'[t] = "idle"

\* C2: when join(path) returns, every job that was enqueued on the path
\* before the call has been executed (stated here for a pool that is in
\* service, where nothing but the jobs themselves can fail).
C2_JoinDrains ==
    [][\A t \in Threads :
          (JoinPathReturns(t) /\ ~pool_shutdown)
              => \A j \in pre[t] : Executed(j)]_vars

\* The dispatcher threads created for path p that are still running.
LiveDispatchers(p) == {q \in QIds : thread[q].path = p /\ Alive(q)}

\* C3: at every moment a path has at most one live dispatcher thread (and
\* so one queue that is being served).
C3_OneDispatcherPerPath ==
    \A p \in Paths : Cardinality(LiveDispatchers(p)) <= 1

\* Position of job j in the queue it was put in, 0 when it has left it.
PosInQueue(j) ==
    LET q == job[j].q
        at == {i \in 1..Len(queue[q]) : queue[q][i] = j}
    IN  IF at = {} THEN 0 ELSE CHOOSE i \in at : TRUE

\* Job j waits in the queue of a live dispatcher, ahead of any sentinel:
\* its dispatcher will come to it.
Pending(j) ==
    /\ job[j].st = "queued"
    /\ Alive(job[j].q)
    /\ PosInQueue(j) > 0
    /\ \A i \in 1..PosInQueue(j) : queue[job[j].q][i] # Sentinel

\* The dispatcher of job j's own path has crashed, or waits for a job of
\* that path that is blocked.
OwnPathStuck(j) ==
    LET q == job[j].q IN
    /\ job[j].st # "unmade"
    /\ \/ thread[q].st = "crashed"
       \/ thread[q].st = "waiting" /\ job[thread[q].cur].st = "blocked"

\* The shared pool has no worker for a new job: it is shut down, or every
\* worker runs a blocked job.
PoolOut == pool_shutdown \/ Cardinality(Blocked) >= PoolSize

\* C4: paths progress independently.  A job that waits in the queue of a
\* live dispatcher is run (to its end, unless the job itself blocks)
\* whatever the jobs of other paths do, blocked ones included: only its
\* own path's dispatcher being stuck, or the pool having no worker left,
\* keeps it from running.
C4_IndependentProgress ==
    \A j \in JobIds :
        Pending(j) ~> (Executed(j) \/ job[j].st = "blocked"
                         \/ OwnPathStuck(j) \/ PoolOut)

\* A job of one path is blocked, and a job enqueued after it on another
\* path has run to its end.
C4_Witness ==
    \E a, b \in JobIds :
        /\ a < b
        /\ job[a].st = "blocked"
        /\ job[b].st = "done"
        /\ job[a].path # job[b].path

\* C5: a job that raised is reported by the next join of its path (or of
\* all paths): that join does not return success.
C5_FailureReported ==
    [][\A t \in Threads :
          (JoinReturns(t) /\ \E j \in pre[t] : job[j].st = "raised")
              => ~success[t]]_vars

\* Path p has been opened and joined: a dispatcher made for it has exited.
PreviouslyOpen(p) ==
    \E q \in QIds : thread[q].path = p /\ thread[q].st = "exited"

\* C6: once a join() with no path has returned, no write or close on a
\* previously-open path is accepted into a queue any more.
C6_NoEnqueueAfterJoinAll ==
    [][\A j \in JobIds :
          (joined_all /\ job[j].st = "unmade" /\ job'[j].st # "unmade")
              => ~PreviouslyOpen(job'[j].path)]_vars

\* PathData q was created by an open_async that followed the removal of an
\* earlier PathData of the same path.
Reopened(q) ==
    \E q0 \in QIds :
        q0 < q /\ thread[q0].st # "unborn" /\ thread[q0].path = thread[q].path

\* Job j was accepted into a queue and can no longer be run: its
\* dispatcher is dead, and the job was never handed to a worker.
Abandoned(j) == job[j].st \in {"queued", "dropped"} /\ Dead(job[j].q)

\* While the pool is in service, no job that was enqueued in a re-created
\* PathData is abandoned.
NoneLeftBehind ==
    \A j \in JobIds :
        (job[j].st # "unmade" /\ Reopened(job[j].q) /\ ~pool_shutdown)
            => ~Abandoned(j)

\* C7: when join(path) returns the path is not registered and every
\* dispatcher created for it has exited; an open_async that then registers
\* the path again makes a PathData that was never used before, with an
\* empty queue and a live dispatcher; and the jobs enqueued in it are run,
\* none is left behind.
C7_FreshAfterJoin ==
    [][/\ \A t \in Threads :
            JoinPathReturns(t) =>
                /\ ~Has(arg[t])
                /\ LiveDispatchers(arg[t]) = {}
       /\ \A t \in Threads :
            (pc[t] = "open_new" /\ pc'[t] = "open_io") =>
                LET q == Get(arg[t])' IN
                /\ thread[q].st = "unborn" /\ thread'[q].st = "polling"
                /\ queue'[q] = <<>>
       /\ NoneLeftBehind'
      ]_vars

\* C8: a join that is given a path that is not registered raises: it never
\* goes on to close paths or to shut the pool down.
C8_JoinUnregisteredRaises ==
    [][\A t \in Threads :
          (pc[t] = "idle" /\ pc'[t] = "join_loop")
              => (arg'[t] = NoPath \/ Has(arg'[t]))]_vars

\* C19: a closure that a write or close call has put in a queue is never
\* behind the terminal sentinel, nor in a queue whose dispatcher has
\* exited, also when joins run on another thread.
C19_NoClosureBehindSentinel ==
    \A j \in JobIds :
        job[j].st = "queued" =>
            /\ thread[job[j].q].st # "exited"
            /\ PosInQueue(j) > 0
            /\ \A i \in 1..PosInQueue(j) : queue[job[j].q][i] # Sentinel

\* The step in which caller t's write or close puts its closure and
\* returns.
PutReturns(t) == pc[t] = "put" /\ pc'[t] = "idle"

\* C20: a write or close call adds exactly one closure, at the tail of the
\* queue it looked up for its path, and returns with the closure not run;
\* closures are made by these calls only, and a closure starts to run only
\* when a pool worker takes it from the pool's work queue.
C20_OneClosurePerCall ==
    [][/\ \A t \in Threads :
            PutReturns(t) =>
                LET j == NumJobs + 1
                    q == local_q[t]
                IN  /\ NumJobs' = NumJobs + 1
                    /\ thread[q].path = arg[t]
                    /\ queue' = [queue EXCEPT ![q] = Append(@, j)]
                    /\ job'[j] = [path |-> arg[t], st |-> "queued", q |-> q]
                    /\ \A k \in JobIds \ {j} : job'[k] = job[k]
       /\ (NumJobs' # NumJobs) => \E t \in Threads : PutReturns(t)
       /\ \A j \in JobIds :
            (~Started(j) /\ Started(j)') =>
                /\ job[j].st = "submitted"
                /\ workq # <<>> /\ Head(workq) = j /\ workq' = Tail(workq)
                /\ pc' = pc
      ]_vars

\* Two calls have put their closures in one queue, in call order, and
\* neither has been run.
C20_Witness ==
    \E q \in QIds :
        /\ queue[q] = <<1, 2>>
        /\ job[1].st = "queued" /\ job[2].st = "queued"

\* The step in which caller t calls join(path) with a path that is
\* registered.
JoinsRegistered(t) ==
    /\ pc[t] = "idle" /\ pc'[t] = "join_loop"
    /\ arg'[t] # NoPath
    /\ Has(arg'[t])

\* C21: a join(path) of a registered path closes that path and no other:
\* the list of paths it is going to pop, signal and wait for is that one
\* path, so every other entry, queue and dispatcher is left alone (and a
\* call that closes exactly its own path is not the join-all that shuts
\* the pool down).
C21_JoinPathFrame ==
    [][\A t \in Threads : JoinsRegistered(t) => todo'[t] = <<arg'[t]>>]_vars

\* C22: a path is registered, or has a live dispatcher, only if an open of
\* it has returned a handle or is still in progress: an open that raised
\* has left nothing behind.
C22_FailedOpenLeavesNothing ==
    \A q \in QIds :
        (thread[q].st # "unborn" /\ (Alive(q) \/ Has(thread[q].path))) =>
            \/ thread[q].path \in handles
            \/ \E t \in Threads : pc[t] = "open_io" /\ arg[t] = thread[q].path

\* ======================================================== claims: the writer
\* The stream has been written and then closed, once, and nothing was
\* called on it since.
ClosedOnce == w_hist.last = "close" /\ w_hist.closes = 1

\* C9: after writes only and one close(), the staged blocks, joined in the
\* order of the committed list, are the written bytes.
C9_CommittedEqualsWritten ==
    (ClosedOnce /\ w_hist.flushes = 0) =>
        /\ blob = written
        /\ Content(staged, w_blocks) = written

\* Writes shorter than, as long as and longer than the chunk size, closed
\* into more than one block.
C9_Witness ==
    /\ ClosedOnce /\ w_hist.flushes = 0
    /\ Len(w_blocks) >= 2
    /\ Len(written) > w_size + 1
    /\ commits = 1

\* The places where byte b is staged.
StagedAt(b) ==
    {<<id, i>> \in (DOMAIN staged) \X (1..MaxBytes) :
        i <= Len(staged[id]) /\ staged[id][i] = b}

\* C10: with explicit flushes among the writes, every written byte is
\* staged in at most one block at any time, and after close() the committed
\* content is the written bytes.
C10_FlushStagesOnce ==
    /\ \A b \in 1..Len(written) : Cardinality(StagedAt(b)) <= 1
    /\ ClosedOnce => blob = written

\* ======================================================== claims: the reader
\* The reader has read to exhaustion: a read has met the end of the chunk
\* sequence.
Exhausted == r_st = "open" /\ r_hist.ended > 0

\* C11: after writes and one close(), a reader opened on the blob opens
\* without error and, read to exhaustion, has returned exactly the written
\* bytes, for every byte count, 0 included.
C11_RoundTrip ==
    (ClosedOnce /\ w_hist.flushes = 0) =>
        /\ r_st # "notfound"
        /\ Exhausted => r_out = written

\* C12: a write(b) made while the buffer is non-empty and too small to take
\* b within the chunk size stages the buffer as a block and starts an
\* empty buffer before b is appended.
C12_Rollover ==
    [][LET n == Len(written') - Len(written) IN
       (/\ w_hist'.last = "write"
        /\ w_chunk.open /\ w_chunk.pos > 0
        /\ w_chunk.pos + n > w_size)
         => /\ Len(w_blocks') = Len(w_blocks) + 1
            /\ w_chunk'.buf = SubSeq(written', Len(written) + 1, Len(written'))
      ]_vars

\* C13: _new_block_id never returns an identifier for an index at or past
\* the maximum block count (it raises instead), so every identifier it
\* returns stands for its index, written in IdWidth digits.
C13_CapacityError ==
    id_out # <<>> =>
        /\ id_idx < MaxBlockCount
        /\ DecodeId(id_out) = id_idx
        /\ Len(B64Decode(id_out)) = IdWidth
        /\ Len(id_out) = Len(NewBlockId(0))

\* The list of block ids is that of the first k indices, in order, each
\* id as long as the first, and the backend holds those k blocks.
BlockIdsInOrder ==
    /\ Len(w_blocks) = w_idx + 1
    /\ \A i \in 1..Len(w_blocks) :
        /\ DecodeId(w_blocks[i]) = i - 1
        /\ Len(w_blocks[i]) = Len(w_blocks[1])
    /\ DOMAIN staged = {w_blocks[i] : i \in 1..Len(w_blocks)}
    /\ Cardinality(DOMAIN staged) = Len(w_blocks)

\* A step that stages a block appends that block's id to the list, and a
\* flush() of an empty buffer changes neither the list nor the index.
StagedInListOrder ==
    /\ (DOMAIN staged' # DOMAIN staged) =>
          \E id \in DOMAIN staged' :
              /\ id \notin DOMAIN staged
              /\ w_blocks' = Append(w_blocks, id)
    /\ (w_hist'.flushes = w_hist.flushes + 1
          /\ (~w_chunk.open \/ w_chunk.pos = 0))
          => (w_blocks' = w_blocks /\ w_idx' = w_idx /\ staged' = staged)

\* C14: after any writes and flushes that staged k blocks, the id list has
\* length k, its decoded indices are 0..k-1 in that order, the list order is
\* the staging order, and an empty flush takes no index.
C14_BlockIdMonotonic ==
    []BlockIdsInOrder /\ [][StagedInListOrder]_vars

\* Two blocks or more are staged and a flush() has just met a buffer with
\* nothing in it.
C14_Witness ==
    /\ Len(w_blocks) >= 2
    /\ w_hist.last = "flush"
    /\ w_chunk.open /\ w_chunk.buf = <<>>

\* C17: only close() commits: a step that changes the commit count or the
\* blob is a close(), it commits once, after its flush, the list of all the
\* staged blocks, which is not empty; a close() with nothing staged commits
\* nothing.
C17_CommitOnlyInClose ==
    [][/\ (commits' # commits \/ blob' # blob) =>
            /\ w_hist'.closes = w_hist.closes + 1
            /\ commits' = commits + 1
            /\ w_blocks' # <<>>
            /\ blob' = Content(staged', w_blocks')
       /\ (w_hist'.closes = w_hist.closes + 1 /\ w_blocks' = <<>>) =>
            (commits' = commits /\ blob' = blob)
       /\ (commits = 0 => blob = <<>>)
      ]_vars

\* A close() with nothing staged has committed nothing, and after a write
\* a second close() has made the one commit.
C17_Witness ==
    /\ w_hist.last = "close" /\ w_hist.closes = 2
    /\ commits = 1
    /\ written # <<>>

\* The last call was a read of a positive size, or a read to the end, and
\* it returned nothing.
ReadEmpty ==
    /\ r_st = "open"
    /\ r_hist.last \in {"read", "readall", "readinto"}
    /\ r_hist.n # 0
    /\ r_hist.got = 0

\* C15: the bytes returned are always a prefix of the chunks joined in
\* order; once a read(n), n > 0, has returned empty, or read() or readinto
\* has been called, they are all of them.
C15_ReadsYieldAllChunks ==
    /\ r_st = "open" => Len(r_out) <= Len(Concat(r_chunks))
    /\ r_st = "open" => r_out = SubSeq(Concat(r_chunks), 1, Len(r_out))
    /\ (ReadEmpty \/ (r_st = "open" /\ r_hist.last \in {"readall", "readinto"}))
          => r_out = Concat(r_chunks)

\* The download yields no chunk of length 0.
NoEmptyChunk == \A i \in 1..Len(r_chunks) : r_chunks[i] # <<>>

\* C16: a read(n), n > 0, that returns fewer than n bytes has returned the
\* last byte of the data (stated for downloads without empty chunks).
C16_ShortReadOnlyAtEnd ==
    (/\ r_st = "open" /\ NoEmptyChunk
     /\ r_hist.last = "read" /\ r_hist.n > 0
     /\ r_hist.got < r_hist.n)
        => r_out = Concat(r_chunks)

\* C18: once a read has met the end of the chunk sequence, every later
\* read, of any size or to the end, returns nothing, meets the end again
\* without error, and leaves the cursor and the chunk as they are.
C18_ExhaustionPermanent ==
    [][(Exhausted /\ r_hist' # r_hist) =>
          /\ r_out' = r_out
          /\ r_hist'.got = 0
          /\ r_st' = "open"
          /\ r_chunk' = r_chunk /\ r_pos' = r_pos /\ r_iter' = r_iter
          /\ r_hist'.ended > 0
      ]_vars /\ [](Exhausted => r_iter = Len(r_chunks))

\* After the end was met, a read(n) with n > 0 has been made on a reader
\* that holds a chunk; it met the end again and returned nothing.
C18_Witness ==
    /\ r_st = "open" /\ r_hist.ended = 2
    /\ r_hist.last = "read" /\ r_hist.n > 0 /\ r_hist.got = 0
    /\ Len(r_out) >= 2
    /\ r_chunk.open /\ r_pos = Len(r_chunk.data)

\* C23: close() is idempotent: a close() that directly follows a close()
\* stages no block and commits nothing, so a stream commits at most once.
C23_CloseIdempotent ==
    /\ [](commits <= 1)
    /\ [][(w_hist.last = "close" /\ w_hist'.closes = w_hist.closes + 1) =>
            /\ staged' = staged
            /\ w_blocks' = w_blocks
            /\ commits' = commits
         ]_vars

\* Line 119: the read has to take the next chunk, because none is buffered
\* or the buffered one is used up.
NeedsChunk == ~r_chunk.open \/ r_pos >= Len(r_chunk.data)

\* A chunk is buffered and the cursor is within it.
CursorInChunk == r_chunk.open => (0 <= r_pos /\ r_pos <= Len(r_chunk.data))

\* The step is a read(n) with n > 0.
ReadsSome == r_hist'.last = "read" /\ r_hist'.n > 0

\* C24: the cursor stays within the buffered chunk, and a read of positive
\* size takes the next chunk of the sequence once when no chunk is buffered
\* or the buffered one is used up (nothing is taken when the sequence is at
\* its end), and takes none otherwise.
C24_CursorAndSingleFetch ==
    /\ [](r_st = "open" => CursorInChunk)
    /\ [][ReadsSome =>
            /\ (NeedsChunk /\ ~IterAtEnd(Reader)) =>
                  /\ r_iter' = r_iter + 1
                  /\ r_chunk' = [open |-> TRUE, data |-> r_chunks[r_iter']]
            /\ (NeedsChunk /\ IterAtEnd(Reader)) =>
                  (r_iter' = r_iter /\ r_chunk' = r_chunk /\ r_pos' = r_pos)
            /\ ~NeedsChunk => (r_iter' = r_iter /\ r_chunk' = r_chunk)
         ]_vars

\* A read of positive size has taken the third chunk, after the second
\* was used up, and stopped inside it.
C24_Witness ==
    /\ r_st = "open" /\ r_hist.last = "read" /\ r_hist.n > 0
    /\ r_iter = 3
    /\ r_hist.got > 0
    /\ 0 < r_pos /\ r_pos < Len(r_chunk.data)

\* The step is a read(0).
ReadsZero == r_hist'.last = "read" /\ r_hist'.n = 0

\* C25: read(0) returns no bytes, takes no chunk and leaves the buffered
\* chunk, the cursor and the position in the sequence as they are, and it
\* does not meet the end of the sequence.
C25_ReadZeroNoEffect ==
    [][ReadsZero =>
          /\ r_hist'.got = 0
          /\ r_out' = r_out
          /\ r_chunk' = r_chunk /\ r_pos' = r_pos /\ r_iter' = r_iter
          /\ r_hist'.ended = r_hist.ended
      ]_vars

\* read(0) has returned nothing on a reader that met the end before and
\* holds a used-up chunk.
C25_Witness ==
    /\ r_st = "open" /\ r_hist.last = "read" /\ r_hist.n = 0
    /\ r_hist.got = 0
    /\ r_hist.ended > 0
    /\ r_chunk.open /\ r_pos = Len(r_chunk.data) /\ r_pos > 0

\* C26: a copy that has returned has returned True only for a copy that
\* succeeded, and False for one still pending at the deadline and for one
\* that failed or was aborted.
C26_CopyTrueOnlyOnSuccess ==
    c_pc = "returned" => (c_ret = (c_props = "success" /\ c_status = "success"))

\* C27: a request for a client returns a client, never None, and the
\* client it returns is the one made for the account asked for.
C27_ClientForAccount ==
    h_called => (h_ret # NoClient /\ h_ret = h_req)

====
